---- MODULE Spec2Model ----
(***************************************************************************)
(* A model of untwist/data/audio.py: the ndarray subclasses Signal, Wave,  *)
(* Spectrum, Spectrogram, TFMask, BinaryMask and RatioMask.                *)
(*                                                                         *)
(* An array object is a record [kind, shape, attrs] (plus data where the   *)
(* element values matter).  attrs is the instance __dict__: a function     *)
(* whose domain is the set of attribute names that have been assigned.     *)
(* An attribute value is <<>> for Python's None and <<v>> for the value v. *)
(* Python variables are the slots of objs; the last slot receives the      *)
(* result of an operation.                                                 *)
(***************************************************************************)
EXTENDS Integers, Sequences, FiniteSets, TLC

VARIABLES objs, last, drv

vars == <<objs, last, drv>>

----------------------------------------------------------------------------
(* Bounds of the model *)

MaxFrames == 2
MaxChannels == 2
MaxPad == 2
MaxHandles == 2
MaxTF == 2
MaxWaves == 2

(* Program constants *)

DefaultSampleRate == 44100
DefaultWindowSize == 1024
DefaultHopSize == 512

SampleRates == {DefaultSampleRate, 8000}
WindowHops == {<<DefaultWindowSize, DefaultHopSize>>, <<256, 128>>}

----------------------------------------------------------------------------
(* Attributes *)

NoneV == <<>>

EmptyDict == [n \in {} |-> NoneV]

SetAttr(d, n, v) == [m \in (DOMAIN d) \cup {n} |-> IF m = n THEN v ELSE d[m]]

\* getattr(obj, n, None)
GetAttr(d, n) == IF n \in DOMAIN d THEN d[n] ELSE NoneV

----------------------------------------------------------------------------
(* Shapes *)

ensure2D_row(shape) == IF Len(shape) = 1 THEN <<1, shape[1]>> ELSE shape

ensure2D(shape) == IF Len(shape) = 1 THEN <<shape[1], 1>> ELSE shape

Signal_num_channels(o) == IF Len(o.shape) = 1 THEN 1 ELSE o.shape[2]

Signal_num_frames(o) == o.shape[1]

SpectrogramKinds == {"Spectrogram", "TFMask", "BinaryMask", "RatioMask"}

num_channels(o) == IF o.kind \in SpectrogramKinds THEN 1 ELSE Signal_num_channels(o)

num_frames(o) == IF o.kind \in SpectrogramKinds THEN o.shape[2] ELSE Signal_num_frames(o)

----------------------------------------------------------------------------
(* __array_finalize__: d is the new instance's __dict__, obj is <<>> when  *)
(* the instance comes from an explicit constructor call and <<attrs>> when *)
(* it is a view of, or the wrapped ufunc output for, an object with that   *)
(* __dict__.                                                               *)

Signal_array_finalize(d, obj) ==
    IF Len(obj) = 0 THEN d
    ELSE SetAttr(d, "sample_rate", GetAttr(obj[1], "sample_rate"))

Wave_array_finalize_nullstream(d, obj) ==
    IF Len(obj) = 0 THEN d
    ELSE SetAttr(SetAttr(d, "stream", NoneV), "sample_rate", GetAttr(obj[1], "sample_rate"))

Wave_array_finalize(d, obj) ==
    IF Len(obj) = 0 THEN d
    ELSE SetAttr(SetAttr(d, "stream", GetAttr(obj[1], "stream")),
                 "sample_rate", GetAttr(obj[1], "sample_rate"))

Spectrum_array_finalize(d, obj) ==
    IF Len(obj) = 0 THEN d
    ELSE LET d1 == SetAttr(d, "sample_rate", GetAttr(obj[1], "sample_rate"))
             d2 == SetAttr(d1, "sample_rate", GetAttr(obj[1], "window_size"))
         IN  SetAttr(d2, "sample_rate", GetAttr(obj[1], "hop_size"))

Spectrogram_array_finalize(d, obj) ==
    IF Len(obj) = 0 THEN d
    ELSE SetAttr(SetAttr(SetAttr(d, "sample_rate", GetAttr(obj[1], "sample_rate")),
                         "window_size", GetAttr(obj[1], "window_size")),
                 "hop_size", GetAttr(obj[1], "hop_size"))

\* method resolution: the nearest class that defines __array_finalize__
array_finalize(kind, d, obj) ==
    CASE kind = "Signal" -> Signal_array_finalize(d, obj)
      [] kind = "Wave" -> Wave_array_finalize(d, obj)
      [] kind = "Spectrum" -> Spectrum_array_finalize(d, obj)
      [] OTHER -> Spectrogram_array_finalize(d, obj)

----------------------------------------------------------------------------
(* Constructors *)

Signal_new(cls, shape, sample_rate) ==
    [kind |-> cls,
     shape |-> ensure2D(shape),
     attrs |-> SetAttr(array_finalize(cls, EmptyDict, <<>>), "sample_rate", sample_rate)]

Wave_init(self) == [self EXCEPT !.attrs = SetAttr(self.attrs, "stream", NoneV)]

Spectrogram_new(cls, shape, sample_rate, window_size, hop_size) ==
    LET instance == Signal_new(cls, shape, sample_rate)
    IN  [instance EXCEPT !.attrs = SetAttr(SetAttr(instance.attrs, "window_size", <<window_size>>),
                                           "hop_size", <<hop_size>>)]

\* Wave(samples, sample_rate): Signal.__new__, then Wave.__init__
Wave_new(shape, sample_rate) == Wave_init(Signal_new("Wave", shape, sample_rate))

\* cls(data, sample_rate, ...) with the integers sample_rate, wh[1], wh[2]
Construct(cls, shape, sample_rate, wh) ==
    CASE cls = "Wave" -> Wave_new(shape, <<sample_rate>>)
      [] cls \in SpectrogramKinds -> Spectrogram_new(cls, shape, <<sample_rate>>, wh[1], wh[2])
      [] OTHER -> Signal_new(cls, shape, <<sample_rate>>)

----------------------------------------------------------------------------
(* Wave methods, on the class, shape and __dict__ of the arrays *)

\* np.divide(self, np.max(self, 0)) has self's shape; Wave(...) makes it 2D
Wave_normalize(self) == Wave_new(self.shape, self.attrs["sample_rate"])

Wave_zero_pad(self, start_frames, end_frames) ==
    Wave_new(<<start_frames + self.shape[1] + end_frames, Signal_num_channels(self)>>,
             self.attrs["sample_rate"])

\* play(): h is the handle audio_driver.play returns when it is called
Wave_play_unguarded(self, h) ==
    [o |-> [self EXCEPT !.attrs = SetAttr(self.attrs, "stream", <<h>>)], called |-> TRUE]

Wave_play(self, h) ==
    IF self.attrs["stream"] = NoneV
    THEN [o |-> [self EXCEPT !.attrs = SetAttr(self.attrs, "stream", <<h>>)], called |-> TRUE]
    ELSE [o |-> self, called |-> FALSE]

\* stop(): raised tells whether audio_driver.stop(self.stream) raised
Wave_stop_finally(self, raised) ==
    [self EXCEPT !.attrs = SetAttr(self.attrs, "stream", NoneV)]

Wave_stop(self, raised) ==
    IF raised THEN self
    ELSE [self EXCEPT !.attrs = SetAttr(self.attrs, "stream", NoneV)]

----------------------------------------------------------------------------
(* Derived arrays: views and ufunc outputs keep the class of the object    *)
(* they derive from and get their __dict__ from __array_finalize__(obj).   *)

View(o, shape) ==
    [kind |-> o.kind, shape |-> shape, attrs |-> array_finalize(o.kind, EmptyDict, <<o.attrs>>)]

\* __array_wrap__ of the operand that wraps a ufunc's output
array_wrap(self, shape) == View(self, shape)

Max(x, y) == IF x >= y THEN x ELSE y

Compatible(m, n) == m = n \/ m = 1 \/ n = 1

\* numpy broadcasting of two shapes of one or two dimensions
PadShape(s, n) == IF Len(s) < n THEN <<1>> \o s ELSE s

Broadcastable(s, t) ==
    LET n == Max(Len(s), Len(t))
    IN  \A k \in 1..n : Compatible(PadShape(s, n)[k], PadShape(t, n)[k])

Broadcast(s, t) ==
    LET n == Max(Len(s), Len(t))
    IN  [k \in 1..n |-> Max(PadShape(s, n)[k], PadShape(t, n)[k])]

----------------------------------------------------------------------------
(* Slots.  A slot holds an object o together with history: op, how the     *)
(* object was made; org, the class and __dict__ of the constructed object  *)
(* at the start of its chain of left operands; inp, the shape of the       *)
(* constructor's input; pnd, the largest number of dimensions among the    *)
(* operands it was made from; bstream and pstream, its own stream          *)
(* attribute and its first operand's when it was made; plays, the driver   *)
(* play requests made for it since its last stop().                        *)

NullSlot == [op |-> "none"]

Meta(o) == [kind |-> o.kind, attrs |-> o.attrs]

MaxNd(pars) ==
    IF Len(pars) = 0 THEN 0
    ELSE IF Len(pars) = 1 THEN Len(pars[1].shape)
    ELSE Max(Len(pars[1].shape), Len(pars[2].shape))

MkSlot(op, o, org, pars, inp) ==
    [op |-> op, o |-> o, org |-> org, inp |-> inp, pnd |-> MaxNd(pars),
     bstream |-> GetAttr(o.attrs, "stream"),
     pstream |-> IF Len(pars) = 0 THEN NoneV ELSE GetAttr(pars[1].attrs, "stream"),
     plays |-> 0]

NewSlot(o, inp) == MkSlot("new", o, Meta(o), <<>>, inp)

Bound(S) == {i \in DOMAIN S : S[i].op # "none"}

R == Len(objs)

InputShapes ==
    {<<n>> : n \in 1..MaxFrames} \cup {<<n, c>> : n \in 1..MaxFrames, c \in 1..MaxChannels}

ConstructibleKinds == {"Signal", "Wave", "Spectrum", "Spectrogram", "TFMask"}

DefaultWindowHop == <<DefaultWindowSize, DefaultHopSize>>

\* every object a constructor call can return for the given inputs
Constructed(kinds, shapes, rates, whs) ==
    {NewSlot(Construct(k, s, sr, DefaultWindowHop), s) :
        k \in kinds \ SpectrogramKinds, s \in shapes, sr \in rates}
    \cup
    {NewSlot(Construct(k, s, sr, wh), s) :
        k \in kinds \cap SpectrogramKinds, s \in shapes, sr \in rates, wh \in whs}

----------------------------------------------------------------------------
(* Derivations.  The result is bound to the last slot.                     *)

IdleDriver == [next |-> 1]

NoOp == [op |-> "none"]

\* y = np.negative(x), y = x * 2, ...: a ufunc of one array operand
Ufunc1(i) ==
    /\ i \in Bound(objs)
    /\ LET x == objs[i]
       IN  objs' = [objs EXCEPT
                ![R] = MkSlot("ufunc", array_wrap(x.o, x.o.shape), x.org, <<x.o>>, <<>>)]
    /\ last' = NoOp
    /\ UNCHANGED drv

\* z = x * y: the output is wrapped by the leftmost operand of highest
\* __array_priority__, and every class here has priority 10
Ufunc2(i, y) ==
    /\ i \in Bound(objs)
    /\ Broadcastable(objs[i].o.shape, y.shape)
    /\ LET x == objs[i]
       IN  objs' = [objs EXCEPT
                ![R] = MkSlot("ufunc", array_wrap(x.o, Broadcast(x.o.shape, y.shape)),
                              x.org, <<x.o, y>>, <<>>)]
    /\ last' = NoOp
    /\ UNCHANGED drv

\* y = x[lo:hi]: a view of the rows lo .. hi-1
Slice(i, lo, hi) ==
    /\ i \in Bound(objs)
    /\ 0 <= lo /\ lo < hi /\ hi <= objs[i].o.shape[1]
    /\ LET x == objs[i]
       IN  objs' = [objs EXCEPT
                ![R] = MkSlot("slice", View(x.o, [x.o.shape EXCEPT ![1] = hi - lo]),
                              x.org, <<x.o>>, <<>>)]
    /\ last' = NoOp
    /\ UNCHANGED drv

\* y = x[k] (axis 1) or y = x[:, k] (axis 2) of a two-dimensional x: a view
\* with that axis removed
Index(i, axis) ==
    /\ i \in Bound(objs)
    /\ Len(objs[i].o.shape) = 2
    /\ axis \in 1..2
    /\ LET x == objs[i]
       IN  objs' = [objs EXCEPT
                ![R] = MkSlot("index", View(x.o, <<x.o.shape[3 - axis]>>),
                              x.org, <<x.o>>, <<>>)]
    /\ last' = NoOp
    /\ UNCHANGED drv

\* x = y; del y
Rebind(i) ==
    /\ i \in (DOMAIN objs) \ {R}
    /\ objs[R].op # "none"
    /\ objs' = [objs EXCEPT ![i] = objs[R], ![R] = NullSlot]
    /\ last' = NoOp
    /\ UNCHANGED drv

\* the right operands of a binary ufunc: a bound variable or a new array
Operands(fresh) == {objs[j].o : j \in Bound(objs)} \cup {f.o : f \in fresh}

----------------------------------------------------------------------------
(* Spec: a constructed array of any class, with the default metadata, and  *)
(* the arrays derived from it by arithmetic and indexing.                  *)

ShapeInputs == Constructed(ConstructibleKinds, InputShapes, {DefaultSampleRate}, {DefaultWindowHop})

Init ==
    /\ \E a \in ShapeInputs : objs = <<a, NullSlot>>
    /\ last = NoOp
    /\ drv = IdleDriver

Next ==
    \/ \E i \in 1..2 : Ufunc1(i)
    \/ \E i \in 1..2, y \in Operands(ShapeInputs) : Ufunc2(i, y)
    \/ \E i \in 1..2, lo \in 0..MaxFrames, hi \in 1..MaxFrames : Slice(i, lo, hi)
    \/ \E i \in 1..2, axis \in 1..2 : Index(i, axis)
    \/ Rebind(1)

Spec == Init /\ [][Next]_vars

----------------------------------------------------------------------------
(* SpecMeta: a constructed array of any class and any metadata, and the    *)
(* arrays derived from it.                                                 *)

MetaInputs == Constructed(ConstructibleKinds, {<<MaxFrames, MaxChannels>>}, SampleRates, WindowHops)

InitMeta ==
    /\ \E a \in MetaInputs : objs = <<a, NullSlot>>
    /\ last = NoOp
    /\ drv = IdleDriver

NextMeta ==
    \/ \E i \in 1..2 : Ufunc1(i)
    \/ \E i \in 1..2, y \in Operands(MetaInputs) : Ufunc2(i, y)
    \/ \E i \in 1..2, lo \in 0..MaxFrames, hi \in 1..MaxFrames : Slice(i, lo, hi)
    \/ \E i \in 1..2, axis \in 1..2 : Index(i, axis)
    \/ Rebind(1)

SpecMeta == InitMeta /\ [][NextMeta]_vars

----------------------------------------------------------------------------
(* The audio driver (untwist/soundcard/audio_driver, not part of the       *)
(* source at hand): play opens a stream and returns a new handle; stop     *)
(* returns or raises.  drv.next is the next handle play will return.       *)

driver_play == [h |-> drv.next, drv |-> [next |-> drv.next + 1]]

driver_stop(stream, raised) == drv

Stream(i) == GetAttr(objs[i].o.attrs, "stream")

Play(i) ==
    /\ i \in Bound(objs)
    /\ objs[i].o.kind = "Wave"
    /\ LET res == Wave_play(objs[i].o, driver_play.h)
       IN  /\ res.called => drv.next <= MaxHandles
           /\ objs' = [objs EXCEPT ![i].o = res.o,
                                   ![i].plays = IF res.called THEN @ + 1 ELSE @]
           /\ drv' = IF res.called THEN driver_play.drv ELSE drv
           /\ last' = [op |-> "play", slot |-> i, pre |-> Stream(i),
                       called |-> res.called, ret |-> driver_play.h]

Stop(i, raised) ==
    /\ i \in Bound(objs)
    /\ objs[i].o.kind = "Wave"
    /\ objs' = [objs EXCEPT ![i].o = Wave_stop(objs[i].o, raised), ![i].plays = 0]
    /\ drv' = driver_stop(Stream(i), raised)
    /\ last' = [op |-> "stop", slot |-> i, pre |-> Stream(i), raised |-> raised]

Normalize(i) ==
    /\ i \in Bound(objs)
    /\ objs[i].o.kind = "Wave"
    /\ LET x == objs[i]
       IN  objs' = [objs EXCEPT
                ![R] = MkSlot("normalize", Wave_normalize(x.o), x.org, <<x.o>>, <<>>)]
    /\ last' = NoOp
    /\ UNCHANGED drv

ZeroPad(i, a, b) ==
    /\ i \in Bound(objs)
    /\ objs[i].o.kind = "Wave"
    /\ a + objs[i].o.shape[1] + b <= MaxFrames
    /\ LET x == objs[i]
       IN  objs' = [objs EXCEPT
                ![R] = MkSlot("zero_pad", Wave_zero_pad(x.o, a, b), x.org, <<x.o>>, <<>>)]
    /\ last' = NoOp
    /\ UNCHANGED drv

----------------------------------------------------------------------------
(* SpecStream: a Wave, the Waves derived from it, and play() and stop()    *)
(* on any of them.                                                         *)

StreamInputs == Constructed({"Wave"}, {<<1>>}, {DefaultSampleRate}, {DefaultWindowHop})

InitStream ==
    /\ \E a \in StreamInputs : objs = <<a, NullSlot>>
    /\ last = NoOp
    /\ drv = IdleDriver

NextStream ==
    \/ \E i \in 1..2 : Play(i)
    \/ \E i \in 1..2, raised \in BOOLEAN : Stop(i, raised)
    \/ \E i \in 1..2 : Ufunc1(i)
    \/ \E i \in 1..2 : Slice(i, 0, 1)
    \/ \E i \in 1..2 : Index(i, 2)
    \/ \E i \in 1..2 : Normalize(i)
    \/ \E i \in 1..2 : ZeroPad(i, 1, 0)
    \/ Rebind(1)

SpecStream == InitStream /\ [][NextStream]_vars

----------------------------------------------------------------------------
(* Claims about derived arrays (Spec, SpecMeta)                            *)

Slots == {objs[i] : i \in Bound(objs)}

DerivedOps == {"ufunc", "slice", "index"}

SameAttr(s, n) == GetAttr(s.o.attrs, n) = GetAttr(s.org.attrs, n)

\* C5: every array derived by arithmetic or slicing has the class and the
\* sample_rate of the metadata-bearing array its chain of left operands
\* starts from, and for the Spectrogram classes its window_size and
\* hop_size too.
C5_MetadataPropagates ==
    \A s \in Slots :
        s.op \in DerivedOps =>
            /\ s.o.kind = s.org.kind
            /\ SameAttr(s, "sample_rate")
            /\ s.o.kind \in SpectrogramKinds =>
                   SameAttr(s, "window_size") /\ SameAttr(s, "hop_size")

\* C10 as stated: every array is two-dimensional, also those derived by
\* slicing or arithmetic.
C10_AlwaysTwoDimensional == \A s \in Slots : Len(s.o.shape) = 2

\* C10, amended: a constructed array is two-dimensional, (N, 1) for a 1D
\* input of length N and the input's shape for a 2D input; arithmetic and
\* range slices keep the number of dimensions of their operands; indexing
\* one axis of a 2D array yields a 1D array of the same class.
C10_TwoDimensionalUnlessIndexed ==
    \A s \in Slots :
        /\ s.op = "new" =>
              /\ Len(s.o.shape) = 2
              /\ Len(s.inp) = 1 => s.o.shape = <<s.inp[1], 1>>
              /\ Len(s.inp) = 2 => s.o.shape = s.inp
        /\ s.op \in {"ufunc", "slice"} => Len(s.o.shape) = s.pnd
        /\ s.op = "index" => s.pnd = 2 /\ Len(s.o.shape) = 1

C10_Witness ==
    /\ objs[1].op = "new" /\ Len(objs[1].inp) = 1 /\ objs[1].inp[1] > 1
    /\ objs[2].op = "index" /\ objs[2].o.kind = "Wave"

----------------------------------------------------------------------------
(* Claims about play() and stop() (SpecStream)                             *)

\* C3 as stated: after stop(), whether the driver's stop returned or
\* raised, the Wave's stream handle is null.
C3_StopAlwaysClears == last.op = "stop" => Stream(last.slot) = NoneV

\* C3, amended: after a stop() in which the driver's stop returned, the
\* Wave's stream handle is null; after one in which it raised, the handle
\* is what it was before the call.
C3_StopClearsOnReturn ==
    last.op = "stop" =>
        /\ ~last.raised => Stream(last.slot) = NoneV
        /\ last.raised => Stream(last.slot) = last.pre

C3_Witness == last.op = "stop" /\ ~last.raised /\ last.pre # NoneV

\* C4: play() calls the driver only when the Wave's handle is null and then
\* stores the returned handle; with a handle set it makes no driver call
\* and leaves the handle; so no Wave has two driver play requests without
\* a stop() between them.
C4_PlayGuarded ==
    /\ last.op = "play" =>
          /\ last.called => last.pre = NoneV /\ Stream(last.slot) = <<last.ret>>
          /\ last.pre # NoneV => ~last.called /\ Stream(last.slot) = last.pre
    /\ \A s \in Slots : s.plays <= 1

C4_Witness == last.op = "play" /\ last.pre # NoneV /\ objs[last.slot].plays = 1

\* C9 as stated: no two Waves hold the same non-null stream handle, and a
\* derived Wave starts with a null handle.
C9_SingleOwner ==
    /\ \A i \in Bound(objs), j \in Bound(objs) :
          i # j /\ Stream(i) # NoneV => Stream(i) # Stream(j)
    /\ \A s \in Slots : s.op # "new" => s.bstream = NoneV

\* C9, amended: a Wave made by the constructor, by normalize() or by
\* zero_pad() starts with a null handle; a Wave derived by arithmetic,
\* slicing or indexing starts with the handle its source holds then.
C9_HandleFollowsViews ==
    \A s \in Slots :
        /\ s.op \in {"new", "normalize", "zero_pad"} => s.bstream = NoneV
        /\ s.op \in DerivedOps => s.bstream = s.pstream

C9_Witness ==
    /\ objs[2].op \in DerivedOps /\ objs[2].bstream # NoneV
    /\ Stream(1) = Stream(2)

----------------------------------------------------------------------------
(* Element values.  A float is a fraction <<n, d>> in lowest terms with    *)
(* d > 0; <<1, 0>>, <<-1, 0>> and <<0, 0>> are inf, -inf and nan, which    *)
(* numpy's division yields for a zero divisor.                             *)

Abs(x) == IF x < 0 THEN -x ELSE x

Sign(x) == IF x < 0 THEN -1 ELSE IF x = 0 THEN 0 ELSE 1

RECURSIVE GCD(_, _)
GCD(a, b) == IF b = 0 THEN a ELSE GCD(b, a % b)

RNorm(n, d) == LET g == GCD(Abs(n), d) IN <<n \div g, d \div g>>

RInt(v) == <<v, 1>>

NaN == <<0, 0>>

IsNaN(x) == x = NaN

\* x / y as numpy divides floats
RDiv(x, y) ==
    IF IsNaN(x) \/ IsNaN(y) THEN NaN
    ELSE IF y[2] = 0 THEN (IF x[2] = 0 THEN NaN ELSE RInt(0))
    ELSE IF y[1] = 0 THEN (IF x[1] = 0 THEN NaN ELSE <<Sign(x[1]), 0>>)
    ELSE IF x[2] = 0 THEN <<Sign(x[1]) * Sign(y[1]), 0>>
    ELSE RNorm(x[1] * y[2] * Sign(y[1]), x[2] * Abs(y[1]))

\* x + y
RAdd(x, y) ==
    IF IsNaN(x) \/ IsNaN(y) THEN NaN
    ELSE IF x[2] = 0 /\ y[2] = 0 THEN (IF x = y THEN x ELSE NaN)
    ELSE IF x[2] = 0 THEN x
    ELSE IF y[2] = 0 THEN y
    ELSE RNorm(x[1] * y[2] + y[1] * x[2], x[2] * y[2])

\* the larger of two finite floats
RMax(x, y) == IF x[1] * y[2] < y[1] * x[2] THEN y ELSE x

RECURSIVE MaxOf(_)
MaxOf(seq) == IF Len(seq) = 1 THEN seq[1] ELSE RMax(seq[1], MaxOf(Tail(seq)))

----------------------------------------------------------------------------
(* Arrays with their elements: data lists the elements row by row.         *)

WithData(h, d) == [kind |-> h.kind, shape |-> h.shape, attrs |-> h.attrs, data |-> d]

Size(shape) == IF Len(shape) = 1 THEN shape[1] ELSE shape[1] * shape[2]

Zeros(n) == [k \in 1..n |-> RInt(0)]

\* column of the k-th element of an array of that shape
ColOf(shape, k) == ((k - 1) % shape[2]) + 1

Column(o, c) == [r \in 1..o.shape[1] |-> o.data[(r - 1) * o.shape[2] + c]]

\* np.max(self, 0), as the divisor of each element
ColumnMax(o, k) ==
    IF Len(o.shape) = 1 THEN MaxOf(o.data) ELSE MaxOf(Column(o, ColOf(o.shape, k)))

normalize(self) ==
    WithData(Wave_normalize(self),
             [k \in 1..Len(self.data) |-> RDiv(self.data[k], ColumnMax(self, k))])

zero_pad_swapped(self, start_frames, end_frames) ==
    LET c == Signal_num_channels(self)
    IN  WithData(Wave_zero_pad(self, start_frames, end_frames),
                 Zeros(end_frames * c) \o self.data \o Zeros(start_frames * c))

zero_pad(self, start_frames, end_frames) ==
    LET c == Signal_num_channels(self)
        start == Zeros(start_frames * c)
        end == Zeros(end_frames * c)
        tmp == self.data
    IN  WithData(Wave_zero_pad(self, start_frames, end_frames), start \o tmp \o end)

\* np.atleast_2d(w).shape
atleast_2d(shape) == IF Len(shape) = 1 THEN <<1, shape[1]>> ELSE shape

\* np.divide(w, n)
Divide(data, n) == [k \in 1..Len(data) |-> RDiv(data[k], RInt(n))]

\* one pass of the loop of mix: w.normalize() returns a new Wave, which is
\* dropped; w is divided by the count and added to mixed
MixStep(mixed, w, n) ==
    LET dropped == normalize(w)
        wd == Divide(w.data, n)
    IN  [shape |-> Broadcast(mixed.shape, w.shape),
         data |-> [k \in 1..Len(wd) |-> RAdd(mixed.data[k], wd[k])]]

RECURSIVE MixLoop(_, _, _)
MixLoop(mixed, waves, k) ==
    IF k > Len(waves) THEN mixed
    ELSE MixLoop(MixStep(mixed, waves[k], Len(waves)), waves, k + 1)

\* Wave.mix(waves): res is the Wave returned, exc the exception raised
mix(waves) ==
    IF Len(waves) = 1 THEN [exc |-> "none", res |-> <<normalize(waves[1])>>]
    ELSE LET lengths == {atleast_2d(waves[k].shape)[1] : k \in DOMAIN waves}
             widths == {atleast_2d(waves[k].shape)[2] : k \in DOMAIN waves}
         IN  IF Cardinality(lengths) > 1 \/ Cardinality(widths) > 1
             THEN [exc |-> "ArgumentException", res |-> <<>>]
             ELSE LET zeros == [shape |-> waves[1].shape, data |-> Zeros(Size(waves[1].shape))]
                      mixed == MixLoop(zeros, waves, 1)
                  IN  [exc |-> "none",
                       res |-> <<WithData(Wave_new(mixed.shape, waves[1].attrs["sample_rate"]),
                                          mixed.data)>>]

\* w[k] (axis 1) and w[:, k] (axis 2) of a two-dimensional w, k from 1
IndexData(o, axis, k) ==
    WithData(View(o, <<o.shape[3 - axis]>>),
             IF axis = 1 THEN [c \in 1..o.shape[2] |-> o.data[(k - 1) * o.shape[2] + c]]
             ELSE Column(o, k))

----------------------------------------------------------------------------
(* SpecMix: a list of Waves, each as constructed or one row or one channel *)
(* of a constructed Wave, and Wave.mix of the list.                        *)

MixSamples == {RInt(-1), RInt(2)}

DataOver(n, samples) == [1..n -> samples]

Waves(samples) ==
    {NewSlot(WithData(Construct("Wave", s, sr, DefaultWindowHop), d), s) :
        s \in InputShapes, sr \in SampleRates, d \in UNION {DataOver(n, samples) : n \in 1..(MaxFrames * MaxChannels)}}

WavesOf(samples) == {w \in Waves(samples) : Len(w.o.data) = Size(w.o.shape)}

Inputs == [k \in 1..(R - 1) |-> objs[k].o]

InitMix ==
    /\ \E n \in 1..MaxWaves : \E ws \in [1..n -> WavesOf(MixSamples)] : objs = ws \o <<NullSlot>>
    /\ last = NoOp
    /\ drv = IdleDriver

\* waves[i] = waves[i][k] or waves[i] = waves[i][:, k]
TakeIndex(i, axis, k) ==
    /\ last.op = "none"
    /\ i \in 1..(R - 1)
    /\ Len(objs[i].o.shape) = 2
    /\ axis \in 1..2 /\ k \in 1..objs[i].o.shape[axis]
    /\ objs' = [objs EXCEPT
            ![i] = MkSlot("index", IndexData(objs[i].o, axis, k), objs[i].org, <<objs[i].o>>, <<>>)]
    /\ UNCHANGED <<last, drv>>

Mix ==
    /\ last.op = "none"
    /\ LET m == mix(Inputs)
       IN  /\ objs' = [objs EXCEPT
                  ![R] = IF m.exc = "none" THEN NewSlot(m.res[1], m.res[1].shape) ELSE NullSlot]
           /\ last' = [op |-> "mix", exc |-> m.exc, waves |-> Inputs]
    /\ UNCHANGED drv

NextMix ==
    \/ \E i \in 1..MaxWaves, axis \in 1..2, k \in 1..Max(MaxFrames, MaxChannels) : TakeIndex(i, axis, k)
    \/ Mix

SpecMix == InitMix /\ [][NextMix]_vars

----------------------------------------------------------------------------
(* Claims about Wave.mix (SpecMix)                                         *)

RECURSIVE SumNormalized(_, _, _)
SumNormalized(waves, k, i) ==
    IF i > Len(waves) THEN RInt(0)
    ELSE RAdd(RDiv(normalize(waves[i]).data[k], RInt(Len(waves))),
              SumNormalized(waves, k, i + 1))

\* C1: mix of two or more Waves of one shape returns a Wave whose every
\* sample is the sum over the inputs of the input's normalize() value there
\* divided by their count, at the first input's sample rate; so
\* mix([w, w]) equals w.normalize().
C1_MixAveragesNormalized ==
    (/\ last.op = "mix"
     /\ Len(last.waves) >= 2
     /\ \A i \in DOMAIN last.waves : last.waves[i].shape = last.waves[1].shape)
    => /\ last.exc = "none"
       /\ objs[R].op # "none"
       /\ objs[R].o.data = [k \in 1..Len(last.waves[1].data) |-> SumNormalized(last.waves, k, 1)]
       /\ objs[R].o.attrs["sample_rate"] = last.waves[1].attrs["sample_rate"]

\* C2: mix of two or more Waves raises ArgumentException exactly when two
\* of them differ in frame count or in channel count, and then it returns
\* nothing and leaves the inputs as they were.
C2_MixRaisesOnMismatch ==
    (last.op = "mix" /\ Len(last.waves) >= 2)
    => /\ (last.exc = "ArgumentException") <=>
              (\E i, j \in DOMAIN last.waves :
                  \/ num_frames(last.waves[i]) # num_frames(last.waves[j])
                  \/ num_channels(last.waves[i]) # num_channels(last.waves[j]))
       /\ last.exc = "ArgumentException" => objs[R].op = "none" /\ Inputs = last.waves

----------------------------------------------------------------------------
(* SpecPad: a Wave, as constructed or one row or one channel of it, and    *)
(* zero_pad of it.                                                         *)

PadSamples == {RInt(-1), RInt(2)}

InitPad ==
    /\ \E w \in WavesOf(PadSamples) : objs = <<w, NullSlot>>
    /\ last = NoOp
    /\ drv = IdleDriver

ZeroPadData(a, b) ==
    /\ last.op = "none"
    /\ objs' = [objs EXCEPT
            ![R] = MkSlot("zero_pad", zero_pad(objs[1].o, a, b), objs[1].org, <<objs[1].o>>, <<>>)]
    /\ last' = [op |-> "zero_pad", self |-> objs[1].o, a |-> a, b |-> b]
    /\ UNCHANGED drv

NextPad ==
    \/ \E axis \in 1..2, k \in 1..Max(MaxFrames, MaxChannels) : TakeIndex(1, axis, k)
    \/ \E a \in 0..MaxPad, b \in 0..MaxPad : ZeroPadData(a, b)

SpecPad == InitPad /\ [][NextPad]_vars

\* the frame f (from 1) of an array: its elements in channel order
Frame(o, f) ==
    LET c == Signal_num_channels(o) IN [j \in 1..c |-> o.data[(f - 1) * c + j]]

\* C6: zero_pad(a, b) of a Wave of N frames and C channels returns a Wave
\* of N+a+b frames and C channels at the same sample rate, whose first a
\* and last b frames are zero and whose frames between are the original's
\* in order; the original is unchanged.
C6_ZeroPadFrames ==
    last.op = "zero_pad" =>
        LET self == last.self
            res == objs[R].o
            n == num_frames(self)
            c == num_channels(self)
        IN  /\ res.kind = "Wave"
            /\ res.shape = <<n + last.a + last.b, c>>
            /\ res.attrs["sample_rate"] = self.attrs["sample_rate"]
            /\ \A f \in 1..last.a : Frame(res, f) = [j \in 1..c |-> RInt(0)]
            /\ \A f \in 1..last.b : Frame(res, last.a + n + f) = [j \in 1..c |-> RInt(0)]
            /\ \A f \in 1..n : Frame(res, last.a + f) = Frame(self, f)
            /\ objs[1].o = self

C6_Witness ==
    /\ last.op = "zero_pad" /\ last.a > 0 /\ last.b > last.a
    /\ num_frames(last.self) > 1 /\ num_channels(last.self) > 1

----------------------------------------------------------------------------
(* Spectrograms with their elements.  An element of a complex spectrogram  *)
(* is <<re, im>>.  The sum m + eps of a magnitude and eps = np.spacing(1)  *)
(* is held as m: in floating point it is eps for m = 0 and m itself for    *)
(* the magnitudes 10 and 100 used here.                                    *)

ComplexSamples == {<<0, 0>>, <<-6, 8>>, <<0, -100>>}

\* np.abs of a complex number whose modulus is a whole number
Modulus(z) == CHOOSE m \in 0..(Abs(z[1]) + Abs(z[2])) : m * m = z[1] * z[1] + z[2] * z[2]

\* Spectrum.magnitude: a ufunc output, wrapped as self's class
magnitude(self) ==
    WithData(array_wrap(self, self.shape), [k \in 1..Len(self.data) |-> Modulus(self.data[k])])

\* 100 * log10(m + eps), to the nearest whole number
Log10x100(m) ==
    CASE m = 0 -> -1565
      [] m = 10 -> 100
      [] m = 100 -> 200

\* 100 * 20 * log10(tm / bm)
Decibels(tm, bm) == 20 * (Log10x100(tm) - Log10x100(bm))

BinaryCell_ge(tm, bm, threshold) == IF Decibels(tm, bm) >= 100 * threshold THEN 1 ELSE 0

\* (20 * np.log10(tm / bm) > threshold).astype(float)
BinaryCell(tm, bm, threshold) == IF Decibels(tm, bm) > 100 * threshold THEN 1 ELSE 0

\* the attributes BinaryMask.__new__ and RatioMask.__new__ assign last
MaskAttrs_defaults(instance, target) == instance

MaskAttrs(instance, target) ==
    [instance EXCEPT !.attrs =
        SetAttr(SetAttr(SetAttr(instance.attrs, "sample_rate", target.attrs["sample_rate"]),
                        "window_size", target.attrs["window_size"]),
                "hop_size", target.attrs["hop_size"])]

\* TFMask.__new__(cls, mask) is Spectrogram.__new__ with its defaults
TFMask_new(cls, shape) ==
    Spectrogram_new(cls, shape, <<DefaultSampleRate>>, DefaultWindowSize, DefaultHopSize)

BinaryMask_new(target, background, threshold) ==
    LET tm == magnitude(target)
        bm == magnitude(background)
        shape == Broadcast(tm.shape, bm.shape)
        mask == [k \in 1..Size(shape) |-> BinaryCell(tm.data[k], bm.data[k], threshold)]
    IN  WithData(MaskAttrs(TFMask_new("BinaryMask", shape), target), mask)

\* tm**p / (tm + bm)**p, held as the magnitudes and the exponent
RatioCell(tm, bm, p) == [t |-> tm, b |-> bm, p |-> p]

RatioMask_new(target, background, p) ==
    LET tm == magnitude(target)
        bm == magnitude(background)
        shape == Broadcast(tm.shape, bm.shape)
        mask == [k \in 1..Size(shape) |-> RatioCell(tm.data[k], bm.data[k], p)]
    IN  WithData(MaskAttrs(TFMask_new("RatioMask", shape), target), mask)

----------------------------------------------------------------------------
(* SpecMask: a target and a background spectrogram of one shape, each      *)
(* with its own metadata, and a mask built from them.                      *)

TFShapes == {<<b, f>> : b \in 1..MaxTF, f \in 1..MaxTF}

Spectrograms ==
    {NewSlot(WithData(Construct("Spectrogram", s, sr, wh), d), s) :
        s \in {t \in TFShapes : t[1] * t[2] <= MaxTF}, sr \in SampleRates, wh \in WindowHops,
        d \in UNION {DataOver(n, ComplexSamples) : n \in 1..MaxTF}}

SpectrogramsOf == {g \in Spectrograms : Len(g.o.data) = Size(g.o.shape)}

Thresholds == {-20, 0, 20}

Exponents == {1, 2}

InitMask ==
    /\ \E t \in SpectrogramsOf, b \in SpectrogramsOf :
          /\ t.o.shape = b.o.shape
          /\ objs = <<t, b, NullSlot>>
    /\ last = NoOp
    /\ drv = IdleDriver

BinaryMask(threshold) ==
    /\ last.op = "none"
    /\ LET m == BinaryMask_new(objs[1].o, objs[2].o, threshold)
       IN  objs' = [objs EXCEPT ![R] = NewSlot(m, m.shape)]
    /\ last' = [op |-> "BinaryMask", target |-> objs[1].o, background |-> objs[2].o,
                arg |-> threshold]
    /\ UNCHANGED drv

RatioMask(p) ==
    /\ last.op = "none"
    /\ LET m == RatioMask_new(objs[1].o, objs[2].o, p)
       IN  objs' = [objs EXCEPT ![R] = NewSlot(m, m.shape)]
    /\ last' = [op |-> "RatioMask", target |-> objs[1].o, background |-> objs[2].o,
                arg |-> p]
    /\ UNCHANGED drv

NextMask ==
    \/ \E threshold \in Thresholds : BinaryMask(threshold)
    \/ \E p \in Exponents : RatioMask(p)

SpecMask == InitMask /\ [][NextMask]_vars

MaskOps == {"BinaryMask", "RatioMask"}

Value(m) == IF m = 0 THEN <<0, 1>> ELSE <<m, 0>>

Exceeds(m, n, a, b) ==
    LET x == Value(m)
        y == Value(n)
    IN  \/ x[1] * a > y[1] * b
        \/ x[1] * a = y[1] * b /\ x[2] * a > y[2] * b

\* the ratio (tm / bm) is above threshold decibels
AboveThreshold(tm, bm, threshold) ==
    CASE threshold = 0 -> Exceeds(tm, bm, 1, 1)
      [] threshold = 20 -> Exceeds(tm, bm, 1, 10)
      [] threshold = -20 -> Exceeds(tm, bm, 10, 1)

\* C8: BinaryMask is 1.0 at exactly the cells where the decibel ratio of
\* |target| + eps to |background| + eps is strictly above threshold and
\* 0.0 elsewhere, also where the ratio equals the threshold; so
\* BinaryMask(target, target, 0) is all zero.
C8_BinaryMaskStrict ==
    last.op = "BinaryMask" =>
        LET mask == objs[R].o
        IN  /\ \A k \in 1..Len(mask.data) :
                  mask.data[k] =
                      IF AboveThreshold(Modulus(last.target.data[k]),
                                        Modulus(last.background.data[k]), last.arg)
                      THEN 1 ELSE 0
            /\ (last.target.data = last.background.data /\ last.arg = 0)
                   => \A k \in 1..Len(mask.data) : mask.data[k] = 0

C8_Witness ==
    /\ last.op = "BinaryMask" /\ last.arg = 20
    /\ Len(objs[R].o.data) = 2
    /\ Modulus(last.target.data[1]) = 100 /\ Modulus(last.background.data[1]) = 10
    /\ objs[R].o.data[1] = 0
    /\ Modulus(last.target.data[2]) = 100 /\ Modulus(last.background.data[2]) = 0
    /\ objs[R].o.data[2] = 1

====
